---- MODULE Spec2Model ----
(***************************************************************************)
(* State-machine model of the NAVER book collectors:                       *)
(*   collect.py         automatic collector (collect / _collect_for_term)  *)
(*   collect_manual.py  manual collector    (collect_manual)               *)
(* Each collector invocation is a process p.  An invocation loads its      *)
(* configuration, lists the destination columns, samples terms (automatic  *)
(* collector only) and then, per term and sort order, fetches a page,      *)
(* resolves the page's ISBNs against the store, builds the rows and        *)
(* inserts them.  The store (table raw_naver) is shared by all             *)
(* invocations and is append-only.                                         *)
(*                                                                         *)
(* Abstractions.  An ISBN is a well-formed nonblank string without quotes  *)
(* (Keys) or missing (such items only count towards the page length).     *)
(* The wall clock is nondecreasing and counted in ticks; TicksPerSecond    *)
(* ticks make one epoch second.  uuid6.uuid7() yields a value never        *)
(* generated before (a global allocation counter).  The text analysis of   *)
(* sampled titles is a nondeterministic subset of PoolTerms.               *)
(***************************************************************************)
EXTENDS Integers, Sequences, FiniteSets, TLC

\* ------------------------------------------------------------- bounds ----
MaxClock == 2          \* last clock tick
TicksPerSecond == 2    \* clock ticks per epoch second
MaxUuid == 2           \* identities that can be generated
MaxItems == 2          \* items carrying an ISBN per fetched page
MaxRows == 2           \* rows in the store

\* -------------------------------------------------- program constants ----
DISPLAY == 100         \* page size requested by both collectors
MaxStart == 1000       \* collect_manual: while start <= 1000

Procs == {1, 2}
Keys == {"k1", "k2"}
None == "None"

fallback == {"tonggye", "deiteo", "Statistics", "Data"}
PoolTerms == {"novel"}
Terms == fallback \cup PoolTerms

\* COLLECT_MODE, BATCH_SIZE, REQS_PER_TERM as read from the environment
Modes == {"keyword", "author", "publisher", "mixed"}
BatchSizes == {-1, 0, 1, 2}
ReqsPerTerm == {1, 2}
\* the environments of the automatic collector the runs are started with
AutoCfgs ==
  [kind : {"auto"}, mode : {"mixed"}, batch : {1}, reqs : ReqsPerTerm,
   keyword : {""}]
  \cup {[kind |-> "auto", mode |-> "keyword", batch |-> 2, reqs |-> 2, keyword |-> ""],
        [kind |-> "auto", mode |-> "author", batch |-> 0, reqs |-> 1, keyword |-> ""],
        [kind |-> "auto", mode |-> "publisher", batch |-> -1, reqs |-> 1, keyword |-> ""]}
ManualKeywords == {"", "kw"}

\* raw_naver columns the model keeps: the identity, version and first/last
\* seen columns, the natural key and one content column (discount).  The
\* other content columns and updated_log are copies of the fetched item and
\* of the run's tag that nothing reads back.
AllColumns == {"uuid", "version", "created_at", "created_log",
               "updated_at", "isbn", "discount"}
Schemas == {AllColumns, AllColumns \ {"version"}}

\* item.discount as delivered by the API: numeric text or other text
\* the fetched items that carry an ISBN
Items == [isbn : Keys, discount : {"100"}] \cup [isbn : {"k1"}, discount : {"abc"}]

\* page lengths the model distinguishes (len(items))
PageLens == {0, DISPLAY - 1, DISPLAY}

VARIABLES
  store,          \* rows of raw_naver
  schema,         \* columns of raw_naver (system.columns)
  clock,          \* wall clock, in ticks
  nextUuid,       \* next identity uuid7() hands out
  pc,             \* pc[p]: position of invocation p
  cfg,            \* cfg[p]: kind and environment of invocation p
  TABLE_COLUMNS,  \* TABLE_COLUMNS[p]: module-level column cache
  terms,          \* terms[p]: terms still to collect
  sorts,          \* sorts[p]: sort orders still to run for the term
  sort,           \* sort[p]: current sort order
  start,          \* start[p]: offset of the current request
  items,          \* items[p]: page returned by the last fetch
  now,            \* now[p]: timestamp taken for the page
  existing_map,   \* existing_map[p]: result of the resolver
  query,          \* query[p]: the resolver's store query: "" (none issued), "ok", "failed"
  df,             \* df[p]: the term sample: "" (not read), "failed", "empty", "rows"
  lastLen,        \* lastLen[p]: length of the previous page of this loop
  cause           \* cause[p]: why the invocation ended

vars == <<store, schema, clock, nextUuid, pc, cfg, TABLE_COLUMNS, terms,
          sorts, sort, start, items, now, existing_map, query, df,
          lastLen, cause>>

\* ------------------------------------------------------ pure helpers ----
Min(a, b) == IF a < b THEN a ELSE b
Max(a, b) == IF a > b THEN a ELSE b
Range(s) == {s[i] : i \in 1..Len(s)}
EmptyMap == [k \in {} |-> None]

\* version = int(now.timestamp()): whole epoch seconds of a tick count
int_timestamp(t) == t \div TicksPerSecond

\* int(it["discount"]): defined on numeric text only, raises otherwise
int_raises(d) == d \notin {"100"}
int(d) == CASE d = "100" -> 100

\* `int(it["discount"]) if it.get("discount") else None`, as the cell value
\* (<< >> is NULL)
discount_value(d) == IF d = None THEN << >> ELSE <<int(d)>>

\* building the rows of a page raises iff some item with an ISBN carries a
\* discount int() rejects
rows_raise(its) ==
  \E i \in 1..Len(its) : its[i].discount # None /\ int_raises(its[i].discount)

\* (variant: the row is written as built, whatever the destination has)
filter_row_unfiltered(row, columns) == row
\* {k: v for k, v in row.items() if k in TABLE_COLUMNS}
filter_row_by_existing_columns(row, columns) ==
  [k \in (DOMAIN row) \cap columns |-> row[k]]

\* random.sample(population, k) raises for k < 0 or k > len(population)
random_sample_raises(population, k) == k < 0 \/ k > Cardinality(population)
\* the k-element selections (order is drawn later, term by term)
random_sample(population, k) == {T \in SUBSET population : Cardinality(T) = k}

\* sanitize_keyword: blank -> some fallback word, otherwise the word itself
sanitize_keyword(keyword) == IF keyword = "" THEN fallback ELSE {keyword}

\* pick_unique_terms after the sample was read: the term sets it can return.
\* dfEmpty: the sample is empty or the query failed; pool: extracted terms.
pick_unique_terms_raises(dfEmpty, batch_size) ==
  dfEmpty /\ random_sample_raises(fallback, Min(Cardinality(fallback), batch_size))

\* (variant: no fallback vocabulary for an empty sample)
pick_unique_terms_no_fallback(dfEmpty, pool, batch_size) ==
  random_sample(pool, Max(0, Min(batch_size, Cardinality(pool))))

pick_unique_terms(dfEmpty, pool, batch_size) ==
  IF dfEmpty
  THEN random_sample(fallback, Min(Cardinality(fallback), batch_size))
  ELSE LET pl == IF pool = {} THEN fallback ELSE pool
           m  == Min(batch_size, Cardinality(pl))
           \* pool_list[:m] with a negative m drops the last -m elements
           n  == IF m >= 0 THEN m ELSE Max(0, Cardinality(pl) + m)
       IN  random_sample(pl, n)

\* generate_keyword after the sample was read: the terms it can return
generate_keyword(dfEmpty, candidates) ==
  IF dfEmpty \/ candidates = {} THEN fallback
  ELSE UNION {sanitize_keyword(c) : c \in candidates}

\* sorts of _collect_for_term
sorts_for_term(reqs_per_term) ==
  IF reqs_per_term <= 1 THEN {<<"sim">>, <<"date">>} ELSE {<<"sim", "date">>}

\* ---------------------------------------------------------- resolver ----
RowsFor(st, isbn) == {r \in st : r.isbn = isbn}
KeysIn(st, isbns) == {k \in isbns : RowsFor(st, k) # {}}

\* ORDER BY of build_existing_map: version if the column exists, otherwise
\* created_at
order_expr(r, columns) ==
  IF "version" \in columns THEN r.version ELSE r.created_at

\* the rows `ORDER BY order_expr DESC LIMIT 1 BY isbn` can return for isbn
\* (rows that tie on the order expression are returned in any order)
limit_1_by_isbn(st, isbn, columns) ==
  {r \in RowsFor(st, isbn) :
     \A o \in RowsFor(st, isbn) : order_expr(o, columns) <= order_expr(r, columns)}

\* build_existing_map, query succeeded: the mappings it can return
build_existing_map(isbns, st, columns) ==
  LET present == KeysIn(st, isbns)
      picks == {f \in [present -> st] :
                  \A k \in present : f[k] \in limit_1_by_isbn(st, k, columns)}
  IN  {[k \in present |-> [uuid |-> f[k].uuid,
                           created_at |-> f[k].created_at,
                           created_log |-> f[k].created_log]] : f \in picks}

\* build_uuid_map, query succeeded: dict(zip(isbn, uuid)) keeps, per isbn,
\* the uuid of the row the unordered result lists last
build_uuid_map(isbns, st) ==
  LET present == KeysIn(st, isbns)
      picks == {f \in [present -> st] : \A k \in present : f[k] \in RowsFor(st, k)}
  IN  {[k \in present |-> f[k].uuid] : f \in picks}

\* --------------------------------------------------------- row merge ----
\* (variant: a generator that repeats its first value)
uuid7_repeated(n) == 1
\* str(uuid6.uuid7()): the n-th identity generated
uuid7(n) == n

\* (variant: the identity is generated anew on every observation)
book_uuid_regenerated(emap, isbn, fresh) == fresh
\* collect.py: identity and first-seen fields of the row for isbn
book_uuid(emap, isbn, fresh) ==
  IF isbn \in DOMAIN emap THEN emap[isbn].uuid ELSE fresh
created_at_value(emap, isbn, t) ==
  IF isbn \in DOMAIN emap THEN emap[isbn].created_at ELSE t
created_log_value(emap, isbn) ==
  IF isbn \in DOMAIN emap THEN emap[isbn].created_log ELSE "github_actions_auto"

\* collect_manual.py: uuid_map.get(isbn, str(uuid6.uuid7()))
manual_book_uuid(umap, isbn, fresh) ==
  IF isbn \in DOMAIN umap THEN umap[isbn] ELSE fresh

\* (variant: a version that counts down)
version_countdown(t) == MaxClock - t
\* version = int(now.timestamp())
version_of(t) == int_timestamp(t)

auto_row(it, emap, fresh, t) ==
  [uuid        |-> book_uuid(emap, it.isbn, fresh),
   version     |-> version_of(t),
   created_at  |-> created_at_value(emap, it.isbn, t),
   created_log |-> created_log_value(emap, it.isbn),
   updated_at  |-> t,
   isbn        |-> it.isbn,
   discount    |-> discount_value(it.discount)]

manual_row(it, umap, fresh, t) ==
  [uuid        |-> manual_book_uuid(umap, it.isbn, fresh),
   version     |-> version_of(t),
   created_at  |-> t,
   created_log |-> "github_actions_manual",
   updated_at  |-> t,
   isbn        |-> it.isbn,
   discount    |-> discount_value(it.discount)]

\* the rows list of one page: one projected row per item with an ISBN, a
\* new identity generated for each item the mapping does not hold
RECURSIVE build_rows(_, _, _, _)
build_rows(its, emap, n, c) ==
  IF its = << >> THEN << >>
  ELSE LET it == Head(its)
           isNew == it.isbn \notin DOMAIN emap
           row == IF c.kind = "auto"
                  THEN auto_row(it, emap, uuid7(n), c.now)
                  ELSE manual_row(it, emap, uuid7(n), c.now)
       IN  <<filter_row_by_existing_columns(row, c.columns)>>
             \o build_rows(Tail(its), emap, IF isNew THEN n + 1 ELSE n, c)

\* (variant: the generator does not move on after a page)
NewCount_none(its, emap) == 0
\* uuid6.uuid7() calls made for a page: one per item the mapping lacks
NewCount(its, emap) ==
  Cardinality({i \in 1..Len(its) : its[i].isbn \notin DOMAIN emap})

\* ------------------------------------------------------------- state ----
NoCfg == [kind |-> "none", mode |-> "", batch |-> 0, reqs |-> 0, keyword |-> ""]
NoPage == [n |-> 0, keyed |-> << >>]

ManualCfgs == [kind : {"manual"}, mode : {""}, batch : {0}, reqs : {0},
               keyword : ManualKeywords]

Stopped == {"idle", "done", "aborted"}

Init ==
  /\ store = {}
  /\ schema \in Schemas
  /\ clock = 0
  /\ nextUuid = 1
  /\ pc = [p \in Procs |-> "idle"]
  /\ cfg = [p \in Procs |-> NoCfg]
  /\ TABLE_COLUMNS = [p \in Procs |-> {}]
  /\ terms = [p \in Procs |-> {}]
  /\ sorts = [p \in Procs |-> << >>]
  /\ sort = [p \in Procs |-> ""]
  /\ start = [p \in Procs |-> 0]
  /\ items = [p \in Procs |-> NoPage]
  /\ now = [p \in Procs |-> 0]
  /\ existing_map = [p \in Procs |-> EmptyMap]
  /\ query = [p \in Procs |-> ""]
  /\ df = [p \in Procs |-> ""]
  /\ lastLen = [p \in Procs |-> -1]
  /\ cause = [p \in Procs |-> ""]

\* the process ends (normally or by an uncaught exception): its memory is gone
Exit(p, how, why) ==
  /\ pc' = [pc EXCEPT ![p] = how]
  /\ cause' = [cause EXCEPT ![p] = why]
  /\ cfg' = [cfg EXCEPT ![p] = NoCfg]
  /\ TABLE_COLUMNS' = [TABLE_COLUMNS EXCEPT ![p] = {}]
  /\ terms' = [terms EXCEPT ![p] = {}]
  /\ sorts' = [sorts EXCEPT ![p] = << >>]
  /\ sort' = [sort EXCEPT ![p] = ""]
  /\ start' = [start EXCEPT ![p] = 0]
  /\ items' = [items EXCEPT ![p] = NoPage]
  /\ now' = [now EXCEPT ![p] = 0]
  /\ existing_map' = [existing_map EXCEPT ![p] = EmptyMap]
  /\ query' = [query EXCEPT ![p] = ""]
  /\ df' = [df EXCEPT ![p] = ""]
  /\ lastLen' = [lastLen EXCEPT ![p] = -1]

\* the wall clock advances
Tick ==
  /\ clock < MaxClock
  /\ clock' = clock + 1
  /\ UNCHANGED <<store, schema, nextUuid, pc, cfg, TABLE_COLUMNS, terms,
                 sorts, sort, start, items, now, existing_map, query, df,
                 lastLen, cause>>

\* a new invocation starts in this slot.  Module level, environment:
\* os.environ[...] raises KeyError when a variable is missing
LoadConfig(p) ==
  /\ pc[p] \in Stopped
  /\ \/ /\ Exit(p, "aborted", "config")
     \/ /\ \E c \in AutoCfgs \cup ManualCfgs : cfg' = [cfg EXCEPT ![p] = c]
        /\ pc' = [pc EXCEPT ![p] = "columns"]
        /\ cause' = [cause EXCEPT ![p] = ""]
        /\ UNCHANGED <<TABLE_COLUMNS, terms, sorts, sort, start, items,
                       now, existing_map, query, df, lastLen>>
  /\ UNCHANGED <<store, schema, clock, nextUuid>>

\* module level: TABLE_COLUMNS = get_table_columns(...) (no try/except),
\* then the entry point: collect() or collect_manual(MANUAL_KEYWORD)
get_table_columns(p) ==
  /\ pc[p] = "columns"
  /\ \/ Exit(p, "aborted", "columns")
     \/ /\ cfg[p].kind = "manual" /\ cfg[p].keyword = ""
        /\ Exit(p, "aborted", "config")
     \/ /\ cfg[p].kind = "manual" /\ cfg[p].keyword # ""
        /\ TABLE_COLUMNS' = [TABLE_COLUMNS EXCEPT ![p] = schema]
        /\ sorts' = [sorts EXCEPT ![p] = <<"sim", "date">>]
        /\ pc' = [pc EXCEPT ![p] = "sort"]
        /\ UNCHANGED <<cfg, terms, sort, start, items, now, existing_map,
                       query, df, lastLen, cause>>
     \/ /\ cfg[p].kind = "auto"
        /\ TABLE_COLUMNS' = [TABLE_COLUMNS EXCEPT ![p] = schema]
        /\ pc' = [pc EXCEPT ![p] = "sample"]
        /\ UNCHANGED <<cfg, terms, sorts, sort, start, items, now,
                       existing_map, query, df, lastLen, cause>>
  /\ UNCHANGED <<store, schema, clock, nextUuid>>

\* _sample_df_for_terms / the query of generate_keyword: the sampling query
\* raises (caught: empty DataFrame) or returns a sample of the stored rows
sample_df(p) ==
  /\ pc[p] = "sample"
  /\ \E d \in {"failed", IF store = {} THEN "empty" ELSE "rows"} :
       df' = [df EXCEPT ![p] = d]
  /\ pc' = [pc EXCEPT ![p] = "pick"]
  /\ UNCHANGED <<store, schema, clock, nextUuid, cfg, TABLE_COLUMNS, terms,
                 sorts, sort, start, items, now, existing_map, query, lastLen,
                 cause>>

\* collect(): generate_keyword() in mixed mode, pick_unique_terms() otherwise;
\* pool is what the text analysis extracts from the sampled rows
pick_terms(p) ==
  /\ pc[p] = "pick"
  /\ \E pool \in SUBSET PoolTerms :
       LET dfEmpty == df[p] # "rows" IN
       /\ (dfEmpty => pool = {})
       /\ IF cfg[p].mode = "mixed"
          THEN /\ \E t \in generate_keyword(dfEmpty, pool) :
                    \E s \in sanitize_keyword(t) :
                      terms' = [terms EXCEPT ![p] = {s}]
               /\ pc' = [pc EXCEPT ![p] = "term"]
               /\ UNCHANGED <<cfg, TABLE_COLUMNS, sorts, sort, start, items,
                              now, existing_map, query, df, lastLen, cause>>
          ELSE IF pick_unique_terms_raises(dfEmpty, cfg[p].batch)
          THEN Exit(p, "aborted", "sampling")
          ELSE /\ \E T \in pick_unique_terms(dfEmpty, pool, cfg[p].batch) :
                    terms' = [terms EXCEPT ![p] = T]
               /\ pc' = [pc EXCEPT ![p] = "term"]
               /\ UNCHANGED <<cfg, TABLE_COLUMNS, sorts, sort, start, items,
                              now, existing_map, query, df, lastLen, cause>>
  /\ UNCHANGED <<store, schema, clock, nextUuid>>

\* collect(): `for term in terms` over the shuffled list, and the choice of
\* sort orders at the top of _collect_for_term
NextTerm(p) ==
  /\ pc[p] = "term"
  /\ IF terms[p] = {}
     THEN Exit(p, "done", "")
     ELSE /\ \E t \in terms[p], ss \in sorts_for_term(cfg[p].reqs) :
               /\ terms' = [terms EXCEPT ![p] = terms[p] \ {t}]
               /\ sorts' = [sorts EXCEPT ![p] = ss]
          /\ pc' = [pc EXCEPT ![p] = "sort"]
          /\ df' = [df EXCEPT ![p] = ""]
          /\ UNCHANGED <<cfg, TABLE_COLUMNS, sort, start, items, now,
                         existing_map, query, lastLen, cause>>
  /\ UNCHANGED <<store, schema, clock, nextUuid>>

\* `for sort in sorts`: the next sort order starts at offset 1
NextSort(p) ==
  /\ pc[p] = "sort"
  /\ IF sorts[p] = << >>
     THEN IF cfg[p].kind = "auto"
          THEN /\ pc' = [pc EXCEPT ![p] = "term"]
               /\ lastLen' = [lastLen EXCEPT ![p] = -1]
               /\ sort' = [sort EXCEPT ![p] = ""]
               /\ start' = [start EXCEPT ![p] = 0]
               /\ UNCHANGED <<cfg, TABLE_COLUMNS, terms, sorts, items, now,
                              existing_map, query, df, cause>>
          ELSE Exit(p, "done", "")
     ELSE /\ sort' = [sort EXCEPT ![p] = Head(sorts[p])]
          /\ sorts' = [sorts EXCEPT ![p] = Tail(sorts[p])]
          /\ start' = [start EXCEPT ![p] = 1]
          /\ lastLen' = [lastLen EXCEPT ![p] = -1]
          /\ pc' = [pc EXCEPT ![p] = "fetch"]
          /\ UNCHANGED <<cfg, TABLE_COLUMNS, terms, items, now, existing_map,
                         query, df, cause>>
  /\ UNCHANGED <<store, schema, clock, nextUuid>>

\* ------------------------------------------------------------- pages ----
\* the pages a 200 response can carry: n items, of which `keyed` have an ISBN
Pages(display) ==
  {pg \in [n : PageLens, keyed : UNION {[1..k -> Items] : k \in 0..MaxItems}] :
     Len(pg.keyed) <= pg.n /\ pg.n <= display}

\* collect_manual: `if len(items) < 100: break`, `start += 100`,
\* `while start <= 1000`
\* (variant: the undersized-page test is off by one)
page_is_last_off_by_one(n) == n < 99
page_is_last(n) == n < 100
next_start(s) == s + 100
loop_continues(s) == s <= MaxStart

\* where the invocation goes after a page was processed
AfterPage(p) ==
  IF cfg[p].kind = "manual" /\ ~page_is_last(lastLen[p])
     /\ loop_continues(next_start(start[p]))
  THEN /\ start' = [start EXCEPT ![p] = next_start(start[p])]
       /\ pc' = [pc EXCEPT ![p] = "fetch"]
  ELSE /\ start' = start
       /\ pc' = [pc EXCEPT ![p] = "sort"]

\* fetch_items and the `if not items` test of the caller
fetch_items(p) ==
  /\ pc[p] = "fetch"
  /\ \/ Exit(p, "aborted", "transport")      \* requests.get raises
     \/ Exit(p, "aborted", "json")           \* r.json() raises
     \/ \E pg \in Pages(DISPLAY) \cup {NoPage} :   \* NoPage: status != 200
          /\ Len(pg.keyed) <= MaxRows + 1 - Cardinality(store)
          /\ items' = [items EXCEPT ![p] = IF pg.n = 0 THEN NoPage ELSE pg]
          /\ lastLen' = [lastLen EXCEPT ![p] = pg.n]
          /\ pc' = [pc EXCEPT ![p] = IF pg.n = 0 THEN "sort" ELSE "resolve"]
          /\ UNCHANGED <<cfg, TABLE_COLUMNS, terms, sorts, sort, start, now,
                         existing_map, query, df, cause>>
  /\ UNCHANGED <<store, schema, clock, nextUuid>>

\* (variant: the empty-batch shortcut is missing)
issues_query_always(isbns) == TRUE
\* `if not isbns: return {}`: the resolver queries only for a nonempty batch
issues_query(isbns) == isbns # {}

\* now = datetime.now(KST); batch_isbns; build_existing_map / build_uuid_map
Resolve(p) ==
  /\ pc[p] = "resolve"
  /\ now' = [now EXCEPT ![p] = clock]
  /\ LET batch_isbns == {it.isbn : it \in Range(items[p].keyed)} IN
     IF ~issues_query(batch_isbns)
     THEN /\ existing_map' = [existing_map EXCEPT ![p] = EmptyMap]
          /\ query' = [query EXCEPT ![p] = ""]
     ELSE \/ /\ query' = [query EXCEPT ![p] = "failed"]      \* query raises
             /\ existing_map' = [existing_map EXCEPT ![p] = EmptyMap]
          \/ /\ query' = [query EXCEPT ![p] = "ok"]
             /\ \E m \in (IF cfg[p].kind = "auto"
                          THEN build_existing_map(batch_isbns, store, TABLE_COLUMNS[p])
                          ELSE build_uuid_map(batch_isbns, store)) :
                  existing_map' = [existing_map EXCEPT ![p] = m]
  /\ pc' = [pc EXCEPT ![p] = "write"]
  /\ UNCHANGED <<store, schema, clock, nextUuid, cfg, TABLE_COLUMNS, terms,
                 sorts, sort, start, items, df, lastLen, cause>>

Ctx(p) ==
  [kind |-> cfg[p].kind, now |-> now[p], columns |-> TABLE_COLUMNS[p]]

\* the row loop and client.insert_df
Write(p) ==
  /\ pc[p] = "write"
  /\ IF rows_raise(items[p].keyed)
     THEN /\ Exit(p, "aborted", "item")
          /\ UNCHANGED <<store, nextUuid>>
     ELSE LET rs == build_rows(items[p].keyed, existing_map[p], nextUuid, Ctx(p)) IN
          \/ /\ rs # << >>                    \* insert_df raises
             /\ Exit(p, "aborted", "write")
             /\ UNCHANGED <<store, nextUuid>>
          \/ /\ Cardinality(store \cup Range(rs)) <= MaxRows
             /\ nextUuid + NewCount(items[p].keyed, existing_map[p]) <= MaxUuid + 1
             /\ store' = store \cup Range(rs)
             /\ nextUuid' = nextUuid + NewCount(items[p].keyed, existing_map[p])
             /\ AfterPage(p)
             /\ items' = [items EXCEPT ![p] = NoPage]
             /\ now' = [now EXCEPT ![p] = 0]
             /\ existing_map' = [existing_map EXCEPT ![p] = EmptyMap]
             /\ query' = [query EXCEPT ![p] = ""]
             /\ UNCHANGED <<cfg, TABLE_COLUMNS, terms, sorts, sort, df, lastLen,
                            cause>>
  /\ UNCHANGED <<schema, clock>>

\* -------------------------------------------------------------- runs ----
Step(p) ==
  \/ LoadConfig(p)
  \/ get_table_columns(p)
  \/ sample_df(p)
  \/ pick_terms(p)
  \/ NextTerm(p)
  \/ NextSort(p)
  \/ fetch_items(p)
  \/ Resolve(p)
  \/ Write(p)

\* invocations one after the other: each starts after the previous one ended
SeqProcs == {1}

Next ==
  \/ Tick
  \/ \E p \in SeqProcs : Step(p)

Spec == Init /\ [][Next]_vars

\* ------------------------------------------------- term sampling alone ----
\* every environment of the automatic collector, sampling against an empty
\* and against a nonempty store
TermCfgs == [kind : {"auto"}, mode : Modes, batch : BatchSizes,
             reqs : ReqsPerTerm, keyword : {""}]
SampleRow ==
  [uuid |-> 1, version |-> 0, created_at |-> 0,
   created_log |-> "github_actions_auto", updated_at |-> 0, isbn |-> "k1",
   discount |-> <<100>>]

InitTerms ==
  /\ schema \in Schemas
  /\ store \in {{}, {filter_row_by_existing_columns(SampleRow, schema)}}
  /\ clock = 0
  /\ nextUuid = IF store = {} THEN 1 ELSE 2
  /\ pc = [p \in Procs |-> IF p = 1 THEN "sample" ELSE "idle"]
  /\ \E c \in TermCfgs : cfg = [p \in Procs |-> IF p = 1 THEN c ELSE NoCfg]
  /\ TABLE_COLUMNS = [p \in Procs |-> IF p = 1 THEN schema ELSE {}]
  /\ terms = [p \in Procs |-> {}]
  /\ sorts = [p \in Procs |-> << >>]
  /\ sort = [p \in Procs |-> ""]
  /\ start = [p \in Procs |-> 0]
  /\ items = [p \in Procs |-> NoPage]
  /\ now = [p \in Procs |-> 0]
  /\ existing_map = [p \in Procs |-> EmptyMap]
  /\ query = [p \in Procs |-> ""]
  /\ df = [p \in Procs |-> ""]
  /\ lastLen = [p \in Procs |-> -1]
  /\ cause = [p \in Procs |-> ""]

NextTerms == sample_df(1) \/ pick_terms(1)

SpecTerms == InitTerms /\ [][NextTerms]_vars

\* ------------------------------------------------ projection alone ----
\* one invocation up to its first insert, against destinations of any shape:
\* columns the rows have, in any combination, and a column they do not have
ProjColumns == AllColumns \cup {"remark"}
ProjSchemas == {S \in SUBSET ProjColumns : {"uuid", "isbn"} \subseteq S}
ProjCfgs ==
  {[kind |-> "auto", mode |-> "mixed", batch |-> 1, reqs |-> 1, keyword |-> ""],
   [kind |-> "manual", mode |-> "", batch |-> 0, reqs |-> 0, keyword |-> "kw"]}

InitProject ==
  /\ store = {}
  /\ schema \in ProjSchemas
  /\ clock = 0
  /\ nextUuid = 1
  /\ pc = [p \in Procs |-> IF p = 1 THEN "columns" ELSE "idle"]
  /\ \E c \in ProjCfgs : cfg = [p \in Procs |-> IF p = 1 THEN c ELSE NoCfg]
  /\ TABLE_COLUMNS = [p \in Procs |-> {}]
  /\ terms = [p \in Procs |-> {}]
  /\ sorts = [p \in Procs |-> << >>]
  /\ sort = [p \in Procs |-> ""]
  /\ start = [p \in Procs |-> 0]
  /\ items = [p \in Procs |-> NoPage]
  /\ now = [p \in Procs |-> 0]
  /\ existing_map = [p \in Procs |-> EmptyMap]
  /\ query = [p \in Procs |-> ""]
  /\ df = [p \in Procs |-> ""]
  /\ lastLen = [p \in Procs |-> -1]
  /\ cause = [p \in Procs |-> ""]

\* the destination is migrated while the invocation runs: the version column
\* is added or dropped
AlterTable ==
  /\ schema' = IF "version" \in schema THEN schema \ {"version"}
               ELSE schema \cup {"version"}
  /\ UNCHANGED <<store, clock, nextUuid, pc, cfg, TABLE_COLUMNS, terms, sorts,
                 sort, start, items, now, existing_map, query, df, lastLen,
                 cause>>

NextProject ==
  /\ store = {}
  /\ \/ AlterTable
     \/ get_table_columns(1)
     \/ sample_df(1)
     \/ pick_terms(1)
     \/ NextTerm(1)
     \/ NextSort(1)
     \/ fetch_items(1)
     \/ Resolve(1)
     \/ Write(1)

SpecProject == InitProject /\ [][NextProject]_vars

\* ------------------------------------------------- overlapping runs ----
\* two invocations started by overlapping schedules, each about to request
\* the page of its last (term, sort order): an automatic run at offset 1 or
\* a manual run at the last offset the cap allows.  The store answers every
\* resolver query and no page lists a key twice, so that whatever the two
\* runs do to each other is due to their interleaving alone.
OverlapCfgs ==
  {[kind |-> "auto", mode |-> "mixed", batch |-> 1, reqs |-> 1, keyword |-> ""],
   [kind |-> "manual", mode |-> "", batch |-> 0, reqs |-> 0, keyword |-> "kw"]}

InitOverlap ==
  /\ store = {}
  /\ schema \in Schemas
  /\ clock = 0
  /\ nextUuid = 1
  /\ pc = [p \in Procs |-> "fetch"]
  /\ cfg \in [Procs -> OverlapCfgs]
  /\ TABLE_COLUMNS = [p \in Procs |-> schema]
  /\ terms = [p \in Procs |-> {}]
  /\ sorts = [p \in Procs |-> << >>]
  /\ sort = [p \in Procs |-> "date"]
  /\ start = [p \in Procs |-> IF cfg[p].kind = "auto" THEN 1 ELSE 901]
  /\ items = [p \in Procs |-> NoPage]
  /\ now = [p \in Procs |-> 0]
  /\ existing_map = [p \in Procs |-> EmptyMap]
  /\ query = [p \in Procs |-> ""]
  /\ df = [p \in Procs |-> ""]
  /\ lastLen = [p \in Procs |-> IF cfg[p].kind = "auto" THEN -1 ELSE DISPLAY]
  /\ cause = [p \in Procs |-> ""]

\* a page that lists no key twice
OverlapFetch(p) ==
  /\ fetch_items(p)
  /\ \A i, j \in 1..Len(items'[p].keyed) :
       items'[p].keyed[i].isbn = items'[p].keyed[j].isbn => i = j

\* a resolver query the store answers
OverlapResolve(p) ==
  /\ Resolve(p)
  /\ query'[p] # "failed"

NextOverlap ==
  \/ Tick
  \/ \E p \in Procs :
       \/ OverlapFetch(p)
       \/ OverlapResolve(p)
       \/ Write(p)
       \/ NextSort(p)
       \/ NextTerm(p)

SpecOverlap == InitOverlap /\ [][NextOverlap]_vars

\* ------------------------------------------------------------- claims ----
\* a page was processed to its end: its rows (if any) were inserted
WriteStep(p) == pc[p] = "write" /\ pc'[p] \in {"sort", "fetch"}
UuidsOf(st) == {r.uuid : r \in st}

FirstSeenWriteOnce ==
  [][\A p \in Procs :
       (WriteStep(p) /\ query[p] = "ok") =>
         \A r \in store' \ store :
           RowsFor(store, r.isbn) # {} =>
             \E o \in RowsFor(store, r.isbn) :
               r.created_at = o.created_at /\ r.created_log = o.created_log]_vars

NewKeyAssignment ==
  [][\A p \in Procs :
       WriteStep(p) =>
         \A r \in store' \ store :
           RowsFor(store, r.isbn) = {} =>
             /\ r.uuid \notin UuidsOf(store)
             /\ r.created_at = now[p]
             /\ \A r2 \in store' \ store : r2.isbn # r.isbn => r2.uuid # r.uuid]_vars

\* two never-seen keys were written, each as new
TwoNewKeysWritten ==
  \E r1 \in store, r2 \in store :
    /\ r1.isbn # r2.isbn /\ r1.uuid # r2.uuid
    /\ r1.created_at = r1.updated_at /\ r2.created_at = r2.updated_at

\* C5: every request of a (term, sort order) loop has an offset of at least
\* 1 and at most 1000; the first one has offset 1; and a further one is
\* issued only after a page of the full requested size.
PaginationTerminates ==
  \A p \in Procs :
    pc[p] = "fetch" =>
      /\ 1 <= start[p] /\ start[p] <= 1000
      /\ (lastLen[p] = -1 => start[p] = 1)
      /\ (lastLen[p] # -1 => lastLen[p] = DISPLAY /\ start[p] > 1)

\* the manual collector is about to request the last page the cap allows
LastPageRequested ==
  \E p \in Procs : pc[p] = "fetch" /\ start[p] = 901 /\ lastLen[p] = DISPLAY

\* C6 (as claimed): a failed page request (non-success response or transport
\* failure) ends only the current (term, sort order) loop: after it the run
\* is at the next sort order or term, it has not ended with an exception.
FetchFailureIsolated ==
  \A p \in Procs : ~(pc[p] = "aborted" /\ cause[p] = "transport")

\* C7: a failed resolver query yields the empty mapping and no exception;
\* a page without ISBNs yields the empty mapping and no query; and after a
\* failed query every item of the page that has an ISBN is written with an
\* identity_id no stored row carries and first_seen_at = now.
ResolverDegrades ==
  [][\A p \in Procs :
       /\ pc[p] = "resolve" => pc'[p] \in {"resolve", "write"}
       /\ (pc[p] = "resolve" /\ pc'[p] = "write") =>
            /\ query'[p] = "failed" => existing_map'[p] = EmptyMap
            /\ items[p].keyed = << >> =>
                 query'[p] = "" /\ existing_map'[p] = EmptyMap
       /\ (WriteStep(p) /\ query[p] = "failed") =>
            /\ \A r \in store' \ store :
                 r.uuid \notin UuidsOf(store) /\ r.created_at = now[p]
            /\ \A i \in 1..Len(items[p].keyed) :
                 \E r \in store' \ store : r.isbn = items[p].keyed[i].isbn]_vars

\* the resolver query failed for a page holding a key the store already has
ResolverFailedOnKnownKey ==
  \E p \in Procs :
    /\ pc[p] = "write" /\ query[p] = "failed"
    /\ \E i \in 1..Len(items[p].keyed) : RowsFor(store, items[p].keyed[i].isbn) # {}

\* the ordering the tie-break is claimed to use
claimed_order(r, columns) ==
  IF "version" \in columns THEN r.version ELSE r.updated_at
claimed_rows(st, isbn, columns) ==
  {r \in RowsFor(st, isbn) :
     \A o \in RowsFor(st, isbn) : claimed_order(o, columns) <= claimed_order(r, columns)}

\* C8 (as claimed): the resolver carries forward, per key, the identity (and
\* first-seen fields) of a row with maximum version, or, without a version
\* column, of a row with the most recent last_seen_at.
ResolverTieBreak ==
  \A p \in Procs :
    (pc[p] = "write" /\ query[p] = "ok") =>
      \A k \in DOMAIN existing_map[p] :
        \E r \in claimed_rows(store, k, TABLE_COLUMNS[p]) :
          IF cfg[p].kind = "auto"
          THEN existing_map[p][k] = [uuid |-> r.uuid, created_at |-> r.created_at,
                                     created_log |-> r.created_log]
          ELSE existing_map[p][k] = r.uuid

\* C10 (as claimed): a run ends with an uncaught failure only for a
\* configuration error or a failed store write.
AbortOnlyOnConfigOrWrite ==
  \A p \in Procs : pc[p] = "aborted" => cause[p] \in {"config", "write"}

\* C9 (as claimed): with an empty or failed sample, term sampling returns a
\* nonempty set of fallback terms and does not raise, for every mode and
\* every batch size.
TermFallbackAnyBatch ==
  [][\A p \in Procs :
       (pc[p] = "pick" /\ df[p] \in {"failed", "empty"}) =>
         /\ pc'[p] = "term"
         /\ terms'[p] # {} /\ terms'[p] \subseteq fallback]_vars

\* C9 (amended): the same, in legacy mode for every batch size and in the
\* batch modes for every batch size of at least 1.
TermFallback ==
  [][\A p \in Procs :
       (/\ pc[p] = "pick" /\ df[p] \in {"failed", "empty"}
        /\ (cfg[p].mode = "mixed" \/ cfg[p].batch >= 1)) =>
         /\ pc'[p] = "term"
         /\ terms'[p] # {} /\ terms'[p] \subseteq fallback]_vars

\* a batch mode fell back after a failed sampling query
FellBackAfterFailedSample ==
  \E p \in Procs :
    /\ pc[p] = "term" /\ df[p] = "failed" /\ cfg[p].mode # "mixed"
    /\ terms[p] # {} /\ terms[p] \subseteq fallback

\* the record of the i-th keyed item of the page before projection, with
\* `fresh` as the identity generated for it
OutputRecord(p, i, fresh) ==
  IF cfg[p].kind = "auto"
  THEN auto_row(items[p].keyed[i], existing_map[p], fresh, now[p])
  ELSE manual_row(items[p].keyed[i], existing_map[p], fresh, now[p])

\* C11: every row passed to the write call holds exactly the fields of its
\* output record whose names are in the column set S the process read at
\* its start, each with the record's value; hence for S1 within S the
\* S1-fields of the row equal the record projected onto S1; and a field
\* missing from S is left out without an error.
SchemaProjection ==
  [][\A p \in Procs :
       WriteStep(p) =>
         LET S  == TABLE_COLUMNS[p]
             rs == build_rows(items[p].keyed, existing_map[p], nextUuid, Ctx(p))
         IN  /\ store' = store \cup Range(rs)
             /\ Len(rs) = Len(items[p].keyed)
             /\ \A i \in 1..Len(rs) :
                  \E fresh \in 1..(MaxUuid + 1) :
                    LET rec == OutputRecord(p, i, fresh) IN
                    /\ DOMAIN rs[i] = (DOMAIN rec) \cap S
                    /\ \A k \in DOMAIN rs[i] : rs[i][k] = rec[k]
                    /\ \A S1 \in SUBSET S :
                         [k \in (DOMAIN rs[i]) \cap S1 |-> rs[i][k]]
                           = [k \in (DOMAIN rec) \cap S1 |-> rec[k]]]_vars

\* a row was written without its version and first-seen fields to a
\* destination that has a column the records lack, after the destination
\* was migrated behind the invocation's back
ProjectedRowWritten ==
  \E r \in store :
    /\ DOMAIN r = {"uuid", "isbn", "updated_at"}
    /\ TABLE_COLUMNS[1] = {"uuid", "isbn", "updated_at", "remark"}
    /\ schema # TABLE_COLUMNS[1]

\* C12 (as claimed): a run in legacy (mixed) mode samples exactly one term
\* and, for it, runs both sort orders, relevance then recency, whatever the
\* requests-per-term setting, and goes on to the next offset after every
\* full page until the 1000 cap.
LegacyModeFullSweep ==
  [][\A p \in Procs :
       cfg[p].mode = "mixed" =>
         /\ (pc[p] = "pick" /\ pc'[p] = "term") => Cardinality(terms'[p]) = 1
         /\ (pc[p] = "term" /\ pc'[p] = "sort") => sorts'[p] = <<"sim", "date">>
         /\ (/\ WriteStep(p)
             /\ ~page_is_last(lastLen[p])
             /\ loop_continues(next_start(start[p]))) =>
              pc'[p] = "fetch" /\ start'[p] = next_start(start[p])]_vars

\* C13 (as claimed): a run aborts for a missing or blank required
\* configuration value only in its very first step, before it has issued
\* any store query or API request.
ConfigFailFast ==
  [][\A p \in Procs :
       (pc'[p] = "aborted" /\ cause'[p] = "config") => pc[p] \in Stopped]_vars

\* C14: with two invocations overlapping, a run that resolved a key as
\* absent (its query succeeding) and writes its page after the other run
\* has written that key leaves the store with two different identity_ids
\* for the key: nothing between the resolver's read and the write notices
\* the other run's row.
OverlapRace ==
  [][\A p \in Procs :
       (WriteStep(p) /\ query[p] = "ok") =>
         \A i \in 1..Len(items[p].keyed) :
           LET K == items[p].keyed[i].isbn IN
           (K \notin DOMAIN existing_map[p] /\ RowsFor(store, K) # {}) =>
             \E r1 \in RowsFor(store, K), r2 \in store' \ store :
               r2.isbn = K /\ r1.uuid # r2.uuid]_vars

\* both runs have processed their page and the store holds one key under
\* two identities
TwoIdentitiesAfterOverlap ==
  /\ \A p \in Procs : pc[p] \in {"sort", "term", "done"}
  /\ \E r1 \in store, r2 \in store : r1.isbn = r2.isbn /\ r1.uuid # r2.uuid

\* the identity the resolver's mapping carries forward for key k
carried_uuid(p, k) ==
  IF cfg[p].kind = "auto" THEN existing_map[p][k].uuid ELSE existing_map[p][k]

\* C15 (as claimed): once a key is stored under a second identity_id, every
\* later observation of it whose resolver query succeeds carries forward
\* the identity_id of the key's maximum-version row.
SelfCorrection ==
  \A p \in Procs :
    (pc[p] = "write" /\ query[p] = "ok" /\ "version" \in TABLE_COLUMNS[p]) =>
      \A k \in DOMAIN existing_map[p] :
        Cardinality(UuidsOf(RowsFor(store, k))) > 1 =>
          carried_uuid(p, k) \in UuidsOf(claimed_rows(store, k, TABLE_COLUMNS[p]))

\* every key is stored under one identity
SingleIdentity(st) ==
  \A r1 \in st, r2 \in st : r1.isbn = r2.isbn => r1.uuid = r2.uuid

\* C16 (as claimed): with runs one after the other and the resolver query
\* succeeding, writing a page to a store that holds every key under one
\* identity_id leaves every key under one identity_id, also when the page
\* lists a never-seen key more than once.
SingleIdentityPerKey ==
  [][\A p \in Procs :
       (WriteStep(p) /\ query[p] = "ok") =>
         (SingleIdentity(store) => SingleIdentity(store'))]_vars

====
